---- MODULE Spec2Model ----
(***************************************************************************)
(* Model of the code analysis cache and the conflict detector of          *)
(* src/src/core/code_analyzer.py (class CodeAnalyzer).                    *)
(*                                                                         *)
(* The analyzer is driven one call at a time (each public method is one   *)
(* atomic action).  The file system and the wall clock are the             *)
(* environment: files are written and deleted and time passes between     *)
(* calls.  The clock is taken to be monotonic.                             *)
(***************************************************************************)
EXTENDS Integers, Sequences, FiniteSets, TLC

VARIABLES
    files,    \* the file system: path string -> file
    cache,    \* CodeAnalyzer.cache: the set of its (key, (analysis, time)) items
    now,      \* time.time(), in seconds
    stored,   \* history: key -> the last successful recompute since the last clear
    last,     \* history: the last call made, its arguments and what it returned
    backups,  \* FileManager.backup_dir: the set of the backup files it holds
    threads   \* the threads at work inside the analyzer, each at its step

vars == <<files, cache, now, stored, last, backups, threads>>

----------------------------------------------------------------------------
(* Bounds of the model and constants of the program *)

\* self.cache_ttl
CacheTTL == 300

\* seconds that pass in one step of the clock
TickLen == 150

\* the clock stops after this many steps
MaxTicks == 3

\* no backup is asked for once the backup directory holds this many files
MaxBackups == 1

\* the clock of the threaded runs stops after this many steps
MaxThreadTicks == 2

\* future.result(timeout=5)
ChatTimeout == 5

\* the statements of the function bodies nest at most this deep
MaxDepth == 2

----------------------------------------------------------------------------
(* Paths: pathlib.Path reduced to the stem and the suffix of its name *)

PyPath == [stem |-> "a", suffix |-> ".py"]

JsPath == [stem |-> "b", suffix |-> ".js"]

BasePaths == {PyPath, JsPath}

\* str(file_path)
Str(p) == p.stem \o p.suffix

\* file_path.with_suffix(f'.temp{file_path.suffix}'): a.py -> a.temp.py,
\* whose own suffix is again .py
TempPath(p) == [stem |-> p.stem \o ".temp", suffix |-> p.suffix]

AllPaths == BasePaths \cup {TempPath(p) : p \in BasePaths}

Keys == {Str(p) : p \in AllPaths}

\* the path of a key
PathOf(k) == CHOOSE p \in AllPaths : Str(p) = k

----------------------------------------------------------------------------
(* Source texts.  A text is what the extractors can tell apart: whether   *)
(* ast.parse accepts it, and the definitions it holds, in order: each a   *)
(* function (with its parameter names, whether a docstring follows, and    *)
(* the syntax tree of its body) or a class; and the modules it imports.    *)
(*   syn = "ok"   ast.parse succeeds                                      *)
(*   syn = "bad"  ast.parse raises SyntaxError                            *)
(*   syn = "nul"  ast.parse raises another exception (ValueError for a    *)
(*                null byte, RecursionError for a deep expression)        *)

\* a node of the syntax tree (ast.AST): its class and its child nodes
Node(kind, children) == [kind |-> kind, children |-> children]

\* return x
Return == Node("Return", <<>>)

\* return x if x else y
ReturnIfExp == Node("Return", <<Node("IfExp", <<>>)>>)

\* pass
Pass == Node("Pass", <<>>)

\* a function with the body given
DefBody(n, ps, body) ==
    [kind |-> "def", name |-> n, params |-> ps, doc |-> TRUE, body |-> body]

Def(n, ps) == DefBody(n, ps, <<Return>>)

Class(n) ==
    [kind |-> "class", name |-> n, params |-> <<>>, doc |-> TRUE,
     body |-> <<Pass>>]

\* the statements that nest exactly d deep, in a fixed order: a return, with
\* or without a conditional expression; an if, a for or a while around a
\* statement one less deep; a try around such a statement, with one handler
RECURSIVE Nested(_)
Nested(d) ==
    IF d = 0 THEN <<Return, ReturnIfExp>>
    ELSE LET inner == Nested(d - 1)
             n == Len(inner)
         IN  [i \in 1..4 * n |->
                LET st == inner[((i - 1) % n) + 1]
                IN  CASE (i - 1) \div n = 0 -> Node("If", <<st>>)
                      [] (i - 1) \div n = 1 -> Node("For", <<st>>)
                      [] (i - 1) \div n = 2 -> Node("While", <<st>>)
                      [] OTHER ->
                           Node("Try",
                                <<st, Node("ExceptHandler", <<Return>>)>>)]

\* the statements that nest at most d deep
RECURSIVE Stmts(_)
Stmts(d) == IF d = 0 THEN Nested(0) ELSE Stmts(d - 1) \o Nested(d)

\* import os, f(x, y) and g()
K1 ==
    [syn |-> "ok", decls |-> <<Def("f", <<"x", "y">>), Def("g", <<>>)>>,
     imports |-> <<"os">>]

\* K1 with a third parameter of f
K2 ==
    [syn |-> "ok", decls |-> <<Def("f", <<"x", "y", "z">>), Def("g", <<>>)>>,
     imports |-> <<"os">>]

\* K1 with the function g replaced by a class g
K3 ==
    [syn |-> "ok", decls |-> <<Def("f", <<"x", "y">>), Class("g")>>,
     imports |-> <<>>]

KBad ==
    [syn |-> "bad", decls |-> <<Def("f", <<"x", "y">>)>>, imports |-> <<>>]

KNul == [syn |-> "nul", decls |-> <<Def("g", <<>>)>>, imports |-> <<"os">>]

EmptyText == [syn |-> "ok", decls |-> <<>>, imports |-> <<>>]

\* f(x) with the body st, and a class C
TreeText(st) ==
    [syn |-> "ok", decls |-> <<DefBody("f", <<"x">>, <<st>>), Class("C")>>,
     imports |-> <<>>]

\* the texts whose function nests its statements at most MaxDepth deep
TreeTextSeq ==
    LET sts == Stmts(MaxDepth)
    IN  [i \in 1..Len(sts) |-> TreeText(sts[i])]

TreeTexts == {TreeTextSeq[i] : i \in 1..Len(TreeTextSeq)}

AllTexts == <<K1, K2, K3, KBad, KNul, EmptyText>> \o TreeTextSeq

\* the texts the environment writes to the files
DiskTexts == {K1, K2, K3, KNul}

\* the texts proposed as a file's new content
NewTexts == {K1, K2, K3, KBad, KNul}

\* the texts the files hold before the agent modifies them
AgentTexts == {K1, KNul}

(* Files: a file exists or not; its bytes decode as UTF-8 or not *)

NoFile == [exists |-> FALSE, utf8 |-> FALSE, text |-> EmptyText]

File(text) == [exists |-> TRUE, utf8 |-> TRUE, text |-> text]

\* a file whose bytes are no valid UTF-8 (written under another encoding)
Undecodable(text) == [exists |-> TRUE, utf8 |-> FALSE, text |-> text]

----------------------------------------------------------------------------
(* The values of the analysis *)

\* CodeElement(name, type, line_start, line_end, parameters=None,
\* complexity=0): parameters is None (<<>>) or a list (<<list>>)
CodeElement(n, t, ls, le, ps, cx) ==
    [name |-> n, type |-> t, line_start |-> ls, line_end |-> le,
     parameters |-> ps, complexity |-> cx]

\* complexity: int = 0, the value of an element made without one
DefaultComplexity == 0

NoneParams == <<>>

ListParams(l) == <<l>>

\* hashlib.md5(content.encode()).hexdigest(): a digest that tells the
\* texts apart; 0 stands for the empty string of the failed analysis
Md5(text) == CHOOSE i \in 1..Len(AllTexts) : AllTexts[i] = text

EmptyHash == 0

FileAnalysis(fp, lang, els, deps, score, h, iss) ==
    [file_path |-> fp, language |-> lang, elements |-> els,
     dependencies |-> deps, complexity_score |-> score, hash |-> h,
     issues |-> iss]

\* the place of an analysis where there is none
NoAnalysis == FileAnalysis("", "", <<>>, <<>>, -1, -1, <<>>)

\* an issue dict; severity "" when the dict has no 'severity' key
Issue(t, sev, msg) == [type |-> t, severity |-> sev, message |-> msg]

\* the outcome of a step that may raise
Ok(v) == [raised |-> FALSE, value |-> v]

Raised == [raised |-> TRUE, value |-> <<>>]

----------------------------------------------------------------------------
(* The extractors *)

\* CodeAnalyzer._detect_language
detect_language(suffix) ==
    CASE suffix = ".py" -> "python"
      [] suffix = ".js" -> "javascript"
      [] OTHER -> "unknown"

\* the lines a sequence of nodes takes: a statement or a handler takes one
\* line and those of its children, an expression takes none of its own
RECURSIVE Lines(_)
Lines(nodes) ==
    IF nodes = <<>> THEN 0
    ELSE (IF nodes[1].kind = "IfExp" THEN 0 ELSE 1)
           + Lines(nodes[1].children) + Lines(Tail(nodes))

\* the lines a definition takes: its heading, its docstring, its body
DeclLines(d) == 1 + (IF d.doc THEN 1 ELSE 0) + Lines(d.body)

\* node.lineno: the definitions follow one another from line 1
RECURSIVE LineNo(_, _)
LineNo(decls, i) ==
    IF i = 1 THEN 1 ELSE LineNo(decls, i - 1) + DeclLines(decls[i - 1])

\* node.end_lineno
EndLineNo(decls, i) == LineNo(decls, i) + DeclLines(decls[i]) - 1

\* ast.walk: the nodes of the trees in the queue, breadth first
RECURSIVE Walk(_)
Walk(queue) ==
    IF queue = <<>> THEN <<>>
    ELSE <<queue[1]>> \o Walk(Tail(queue) \o queue[1].children)

\* the node of a function definition
FunctionDef(d) == Node("FunctionDef", d.body)

\* a faulty variant of calculate_function_complexity: only the statements
\* directly in the body of the function are looked at
calculate_function_complexity_Shallow(node) ==
    1 + Len(SelectSeq(node.children,
                      LAMBDA child : child.kind \in {"If", "For", "While",
                                                      "Try", "ExceptHandler"}))

\* CodeAnalyzer._calculate_function_complexity
calculate_function_complexity(node) ==
    1 + Len(SelectSeq(Walk(<<node>>),
                      LAMBDA child : child.kind \in {"If", "For", "While",
                                                      "Try", "ExceptHandler"}))

\* the decision keywords a sequence of nodes is written with: if, for,
\* while, try and except, and the if and the else of a conditional expression
RECURSIVE Keywords(_)
Keywords(nodes) ==
    IF nodes = <<>> THEN 0
    ELSE (CASE nodes[1].kind \in {"If", "For", "While", "Try",
                                  "ExceptHandler"} -> 1
            [] nodes[1].kind = "IfExp" -> 2
            [] OTHER -> 0)
           + Keywords(nodes[1].children) + Keywords(Tail(nodes))

\* CodeAnalyzer._calculate_complexity: 1 and the decision keywords of the
\* whole content
RECURSIVE calculate_complexity_from(_, _)
calculate_complexity_from(decls, i) ==
    IF i > Len(decls) THEN 1
    ELSE Keywords(decls[i].body) + calculate_complexity_from(decls, i + 1)

calculate_complexity(text) == calculate_complexity_from(text.decls, 1)

\* CodeAnalyzer._analyze_python: the functions (with their lines, their
\* parameter names and their complexity) and the classes of the syntax tree,
\* in the order of the text; a SyntaxError is swallowed and leaves no
\* element; any other exception of ast.parse propagates
analyze_python(text) ==
    CASE text.syn = "nul" -> Raised
      [] text.syn = "bad" -> Ok(<<>>)
      [] OTHER ->
           Ok([i \in 1..Len(text.decls) |->
                 IF text.decls[i].kind = "def"
                 THEN CodeElement(text.decls[i].name, "function",
                                  LineNo(text.decls, i),
                                  EndLineNo(text.decls, i),
                                  ListParams(text.decls[i].params),
                                  calculate_function_complexity(
                                      FunctionDef(text.decls[i])))
                 ELSE CodeElement(text.decls[i].name, "class",
                                  LineNo(text.decls, i),
                                  EndLineNo(text.decls, i),
                                  NoneParams, DefaultComplexity)])

\* the element of a regular expression match: its name and the line the
\* match starts on
Matched(decls, i, type) ==
    CodeElement(decls[i].name, type, LineNo(decls, i), LineNo(decls, i),
                NoneParams, DefaultComplexity)

\* CodeAnalyzer._analyze_javascript: regular expressions over the text, which
\* find the names and the lines only (parameters stays None), the functions
\* before the classes, and never raise
analyze_javascript(text) ==
    LET is == [i \in 1..Len(text.decls) |-> i]
        fs == SelectSeq(is, LAMBDA i : text.decls[i].kind = "def")
        cs == SelectSeq(is, LAMBDA i : text.decls[i].kind = "class")
    IN  Ok([j \in 1..Len(fs) |-> Matched(text.decls, fs[j], "function")]
           \o [j \in 1..Len(cs) |-> Matched(text.decls, cs[j], "class")])

\* analysis.get('dependencies', []): the modules of the import statements
\* the analyzer of the suffix finds; the Python analyzer finds none in a text
\* that does not parse
dependencies(suffix, text) ==
    IF suffix = ".py" /\ text.syn # "ok" THEN <<>> ELSE text.imports

\* self.analyzers.get(file_path.suffix, self._analyze_generic)
analyzer(suffix, text) ==
    IF suffix = ".py" THEN analyze_python(text) ELSE analyze_javascript(text)

\* CodeAnalyzer._detect_python_issues: a def or class line with no docstring
\* within the next lines
detect_python_issues(text) ==
    LET undocumented == SelectSeq(text.decls, LAMBDA d : ~d.doc)
    IN  [i \in 1..Len(undocumented) |->
           Issue("documentation", "warning", "Missing docstring")]

\* CodeAnalyzer._detect_issues (the texts of the model have no long line and
\* no TODO marker)
detect_issues(text, lang) ==
    IF lang = "python" THEN detect_python_issues(text) ELSE <<>>

----------------------------------------------------------------------------
(* The cache: a dict, held as the set of its items *)

CacheEntry(k, a, t) == [key |-> k, analysis |-> a, time |-> t]

\* file_str in self.cache
CacheHas(c, k) == \E e \in c : e.key = k

\* self.cache[file_str]
CacheGet(c, k) == CHOOSE e \in c : e.key = k

\* a faulty variant of CacheStore: the new item is added and the old item of
\* the key is left in place
CacheStore_Append(c, k, a, t) == c \cup {CacheEntry(k, a, t)}

\* a faulty variant of CacheStore: the store of one key drops the entries
\* of the other keys
CacheStore_Only(c, k, a, t) == {CacheEntry(k, a, t)}

\* self.cache[file_str] = (file_analysis, time.time())
CacheStore(c, k, a, t) == {e \in c : e.key # k} \cup {CacheEntry(k, a, t)}

\* the except branch of analyze_file: the minimal analysis
FailedAnalysis(k) ==
    FileAnalysis(k, "unknown", <<>>, <<>>, 0, EmptyHash,
                 <<Issue("error", "", "Analysis failed")>>)

\* the try block of analyze_file: read, hash, extract, assemble
Extract(fsys, p) ==
    LET f == fsys[Str(p)]
    IN  IF ~f.exists \/ ~f.utf8 THEN Raised
        ELSE LET lang == detect_language(p.suffix)
                 got == analyzer(p.suffix, f.text)
             IN  IF got.raised THEN Raised
                 ELSE Ok(FileAnalysis(Str(p), lang, got.value,
                                      dependencies(p.suffix, f.text),
                                      calculate_complexity(f.text),
                                      Md5(f.text),
                                      detect_issues(f.text, lang)))

\* a faulty variant of Served: the comparison with the TTL is the wrong way
\* round
Served_Flipped(c, k, force, t) ==
    ~force /\ CacheHas(c, k) /\ t - CacheGet(c, k).time > CacheTTL

\* a faulty variant of Served: an entry aged exactly the TTL is still served
Served_Inclusive(c, k, force, t) ==
    ~force /\ CacheHas(c, k) /\ t - CacheGet(c, k).time <= CacheTTL

\* a faulty variant of Served: force_refresh is not looked at
Served_IgnoreForce(c, k, force, t) ==
    CacheHas(c, k) /\ t - CacheGet(c, k).time < CacheTTL

\* whether analyze_file serves the call from the cache
Served(c, k, force, t) ==
    ~force /\ CacheHas(c, k) /\ t - CacheGet(c, k).time < CacheTTL

\* a faulty variant of analyze_file: the minimal analysis of a failure is
\* stored like any other
analyze_file_StoreFailure(c, fsys, p, force, t) ==
    LET k == Str(p)
    IN  IF Served(c, k, force, t)
        THEN [ret |-> CacheGet(c, k).analysis, cache |-> c, extracted |-> 0]
        ELSE LET got == Extract(fsys, p)
                 a == IF got.raised THEN FailedAnalysis(k) ELSE got.value
             IN  [ret |-> a, cache |-> CacheStore(c, k, a, t),
                  extracted |-> 1]

\* a variant of analyze_file that serves an entry only when its hash is the
\* hash of the file's present content
analyze_file_HashChecked(c, fsys, p, force, t) ==
    LET k == Str(p)
        f == fsys[k]
    IN  IF /\ Served(c, k, force, t)
           /\ f.exists
           /\ CacheGet(c, k).analysis.hash = Md5(f.text)
        THEN [ret |-> CacheGet(c, k).analysis, cache |-> c, extracted |-> 0]
        ELSE LET got == Extract(fsys, p)
             IN  IF got.raised
                 THEN [ret |-> FailedAnalysis(k), cache |-> c,
                       extracted |-> 1]
                 ELSE [ret |-> got.value,
                       cache |-> CacheStore(c, k, got.value, t),
                       extracted |-> 1]

\* a faulty variant of analyze_file: a recompute that fails gives the entry
\* of its key the time of the call
analyze_file_RefreshOnFailure(c, fsys, p, force, t) ==
    LET k == Str(p)
    IN  IF Served(c, k, force, t)
        THEN [ret |-> CacheGet(c, k).analysis, cache |-> c,
              extracted |-> 0]
        ELSE LET got == Extract(fsys, p)
             IN  IF got.raised
                 THEN [ret |-> FailedAnalysis(k),
                       cache |-> IF CacheHas(c, k)
                                 THEN CacheStore(c, k,
                                                 CacheGet(c, k).analysis, t)
                                 ELSE c,
                       extracted |-> 1]
                 ELSE [ret |-> got.value,
                       cache |-> CacheStore(c, k, got.value, t),
                       extracted |-> 1]

\* a faulty variant of analyze_file: a recompute that fails removes the
\* entry of its key
analyze_file_EvictOnFailure(c, fsys, p, force, t) ==
    LET k == Str(p)
    IN  IF Served(c, k, force, t)
        THEN [ret |-> CacheGet(c, k).analysis, cache |-> c,
              extracted |-> 0]
        ELSE LET got == Extract(fsys, p)
             IN  IF got.raised
                 THEN [ret |-> FailedAnalysis(k),
                       cache |-> {e \in c : e.key # k}, extracted |-> 1]
                 ELSE [ret |-> got.value,
                       cache |-> CacheStore(c, k, got.value, t),
                       extracted |-> 1]

\* a faulty variant of analyze_file: the elements are gathered in a list
\* that outlives the call, so that a recompute adds its elements to those of
\* the entry the cache holds
analyze_file_Accumulating(c, fsys, p, force, t) ==
    LET k == Str(p)
    IN  IF Served(c, k, force, t)
        THEN [ret |-> CacheGet(c, k).analysis, cache |-> c,
              extracted |-> 0]
        ELSE LET got == Extract(fsys, p)
                 a == IF got.raised \/ ~CacheHas(c, k) THEN got.value
                      ELSE [got.value EXCEPT !.elements =
                              CacheGet(c, k).analysis.elements \o @]
             IN  IF got.raised
                 THEN [ret |-> FailedAnalysis(k), cache |-> c,
                       extracted |-> 1]
                 ELSE [ret |-> a, cache |-> CacheStore(c, k, a, t),
                       extracted |-> 1]

\* CodeAnalyzer.analyze_file at time t: what it returns, the cache it leaves,
\* and how many times it ran the try block (read, hash, extract)
analyze_file(c, fsys, p, force, t) ==
    LET k == Str(p)
    IN  IF Served(c, k, force, t)
        THEN [ret |-> CacheGet(c, k).analysis, cache |-> c,
              extracted |-> 0]
        ELSE LET got == Extract(fsys, p)
             IN  IF got.raised
                 THEN [ret |-> FailedAnalysis(k), cache |-> c,
                       extracted |-> 1]
                 ELSE [ret |-> got.value,
                       cache |-> CacheStore(c, k, got.value, t),
                       extracted |-> 1]

\* an analyze_file that was not called
NoRun(c) == [ret |-> NoAnalysis, cache |-> c, extracted |-> 0]

\* CodeAnalyzer._detect_issues when the language-specific detector it calls
\* raises: the call has no handler around it, so the exception leaves
\* _detect_issues; a language with no detector of its own is not concerned
detect_issues_raising(text, lang) ==
    IF lang \in {"python", "javascript", "typescript"}
    THEN Raised
    ELSE Ok(detect_issues(text, lang))

\* the try block of analyze_file when the language-specific detector raises
ExtractRaising(fsys, p) ==
    LET f == fsys[Str(p)]
    IN  IF ~f.exists \/ ~f.utf8 THEN Raised
        ELSE LET lang == detect_language(p.suffix)
                 got == analyzer(p.suffix, f.text)
                 iss == detect_issues_raising(f.text, lang)
             IN  IF got.raised \/ iss.raised THEN Raised
                 ELSE Ok(FileAnalysis(Str(p), lang, got.value,
                                      dependencies(p.suffix, f.text),
                                      calculate_complexity(f.text),
                                      Md5(f.text),
                                      iss.value))

\* CodeAnalyzer.analyze_file at time t when the language-specific detector
\* raises
analyze_file_raising(c, fsys, p, force, t) ==
    LET k == Str(p)
    IN  IF Served(c, k, force, t)
        THEN [ret |-> CacheGet(c, k).analysis, cache |-> c,
              extracted |-> 0]
        ELSE LET got == ExtractRaising(fsys, p)
             IN  IF got.raised
                 THEN [ret |-> FailedAnalysis(k), cache |-> c,
                       extracted |-> 1]
                 ELSE [ret |-> got.value,
                       cache |-> CacheStore(c, k, got.value, t),
                       extracted |-> 1]

\* len(str(analysis)): the length of the dataclass repr, which grows with
\* the fields and is never 0
ReprLen(a) ==
    Len("FileAnalysis()") + Len(a.file_path) + Len(a.language)
      + Len(a.elements) + Len(a.issues)

RECURSIVE SumRepr(_)
SumRepr(c) ==
    IF c = {} THEN 0
    ELSE LET e == CHOOSE x \in c : TRUE
         IN  ReprLen(e.analysis) + SumRepr(c \ {e})

\* CodeAnalyzer.get_cache_stats
get_cache_stats(c) ==
    [cached_files |-> Cardinality(c), cache_ttl |-> CacheTTL,
     memory_usage |-> SumRepr(c)]

\* a faulty variant of clear_cache: nothing is removed
clear_cache_Noop(c) == c

\* CodeAnalyzer.clear_cache
clear_cache(c) == {}

NoStats == [cached_files |-> -1, cache_ttl |-> -1, memory_usage |-> -1]

----------------------------------------------------------------------------
(* The conflict detector *)

Conflict(t, sev, msg, el) ==
    [type |-> t, severity |-> sev, message |-> msg, element |-> el]

\* a faulty variant of Functions: the type of the element is not looked at
Functions_All(els) == els

\* [e for e in elements if e.type == 'function']
Functions(els) == SelectSeq(els, LAMBDA e : e.type = "function")

\* the keys of {e.name: e for e in ...}, in the order a dict keeps them:
\* each name at its first occurrence
RECURSIVE DictKeys(_)
DictKeys(els) ==
    IF els = <<>> THEN <<>>
    ELSE LET n == Len(els)
             front == DictKeys(SubSeq(els, 1, n - 1))
         IN  IF \E i \in 1..Len(front) : front[i] = els[n].name
             THEN front
             ELSE Append(front, els[n].name)

\* the value of {e.name: e for e in ...}[name]: the last element of that name
DictGet(els, name) ==
    els[CHOOSE i \in 1..Len(els) :
          /\ els[i].name = name
          /\ \A j \in i + 1..Len(els) : els[j].name # name]

DictHas(els, name) == \E i \in 1..Len(els) : els[i].name = name

\* the first loop of detect_conflicts: the functions that were removed
RemovedConflicts(cur, new) ==
    LET gone == SelectSeq(DictKeys(cur), LAMBDA n : ~DictHas(new, n))
    IN  [i \in 1..Len(gone) |->
           Conflict("removed_function", "error", "was removed", gone[i])]

\* the second loop of detect_conflicts: the functions whose parameters differ
SignatureConflicts(cur, new) ==
    LET changed ==
          SelectSeq(DictKeys(cur),
                    LAMBDA n : /\ DictHas(new, n)
                               /\ DictGet(cur, n).parameters
                                    # DictGet(new, n).parameters)
    IN  [i \in 1..Len(changed) |->
           Conflict("signature_change", "warning", "signature changed",
                    changed[i])]

\* the conflict of the outer except branch
AnalysisError ==
    Conflict("analysis_error", "error", "Could not analyze conflicts", "")

\* what may happen to the temporary file:
\*   "ok"            it is written, read back and removed
\*   "write_fails"   temp_path.write_text raises
\*   "garbled"       write_text (locale encoding) leaves bytes that
\*                   read_text(encoding='utf-8') cannot decode
\*   "unlink_fails"  temp_path.unlink raises
IOOutcomes == {"ok", "write_fails", "garbled", "unlink_fails"}

\* a faulty variant of detect_conflicts: the analysis of the temporary file
\* is not forced, so that the cache may serve it
detect_conflicts_CachedAfter(c, fsys, p, new_content, io, t) ==
    LET cur == analyze_file(c, fsys, p, FALSE, t)
        temp == TempPath(p)
    IN  IF io = "write_fails"
        THEN [conflicts |-> <<AnalysisError>>, cache |-> cur.cache,
              files |-> fsys, cur |-> cur, new |-> NoRun(cur.cache)]
        ELSE LET written == IF io = "garbled" THEN Undecodable(new_content)
                            ELSE File(new_content)
                 fs1 == [fsys EXCEPT ![Str(temp)] = written]
                 new == analyze_file(cur.cache, fs1, temp, FALSE, t)
                 cf == Functions(cur.ret.elements)
                 nf == Functions(new.ret.elements)
                 found == RemovedConflicts(cf, nf) \o SignatureConflicts(cf, nf)
             IN  IF io = "unlink_fails"
                 THEN [conflicts |-> Append(found, AnalysisError),
                       cache |-> new.cache, files |-> fs1,
                       cur |-> cur, new |-> new]
                 ELSE [conflicts |-> found, cache |-> new.cache,
                       files |-> [fs1 EXCEPT ![Str(temp)] = NoFile],
                       cur |-> cur, new |-> new]

\* CodeAnalyzer.detect_conflicts at time t: the conflicts it returns, the
\* cache and the files it leaves, and the two calls of analyze_file it made
\* (cur, new; new is NoRun when the second call was never made)
detect_conflicts(c, fsys, p, new_content, io, t) ==
    LET cur == analyze_file(c, fsys, p, FALSE, t)
        temp == TempPath(p)
    IN  IF io = "write_fails"
        THEN [conflicts |-> <<AnalysisError>>, cache |-> cur.cache,
              files |-> fsys, cur |-> cur, new |-> NoRun(cur.cache)]
        ELSE LET written == IF io = "garbled" THEN Undecodable(new_content)
                            ELSE File(new_content)
                 fs1 == [fsys EXCEPT ![Str(temp)] = written]
                 new == analyze_file(cur.cache, fs1, temp, TRUE, t)
                 cf == Functions(cur.ret.elements)
                 nf == Functions(new.ret.elements)
                 found == RemovedConflicts(cf, nf) \o SignatureConflicts(cf, nf)
             IN  IF io = "unlink_fails"
                 THEN [conflicts |-> Append(found, AnalysisError),
                       cache |-> new.cache, files |-> fs1,
                       cur |-> cur, new |-> new]
                 ELSE [conflicts |-> found, cache |-> new.cache,
                       files |-> [fs1 EXCEPT ![Str(temp)] = NoFile],
                       cur |-> cur, new |-> new]

----------------------------------------------------------------------------
(* The agent: OptimizedDeepCodeAgent.smart_modify_file and what it calls *)

\* the backup file of FileManager.create_backup: named by the stem, the
\* time and the hash of the content, and holding a copy of the content
Backup(p, f, t) ==
    [stem |-> p.stem, suffix |-> p.suffix, at |-> t, hash |-> Md5(f.text),
     text |-> f.text]

\* FileManager.create_backup: the backup directory with the copy added
create_backup(b, fsys, p, t) == b \cup {Backup(p, fsys[Str(p)], t)}

\* FileManager.write_file
write_file(fsys, p, content) == [fsys EXCEPT ![Str(p)] = File(content)]

\* any(c.get('severity') == 'error' for c in conflicts)
HasError(conflicts) ==
    \E i \in DOMAIN conflicts : conflicts[i].severity = "error"

\* the place of the checks where none were made
NoChecks ==
    [file_exists |-> FALSE, file_readable |-> FALSE, syntax_valid |-> FALSE,
     complexity_manageable |-> FALSE, has_dependencies |-> FALSE]

\* the dict pre_edit_checks of analyze_before_edit, for the analysis a of
\* the file p: the file is there, is a file that is not empty, the analysis
\* has no issue whose 'severity' is 'error', its complexity score is below
\* 50, it has a dependency
pre_edit_checks(fsys, p, a) ==
    [file_exists |-> fsys[Str(p)].exists,
     file_readable |-> fsys[Str(p)].exists /\ fsys[Str(p)].text # EmptyText,
     syntax_valid |->
        ~\E i \in DOMAIN a.issues : a.issues[i].severity = "error",
     complexity_manageable |-> a.complexity_score < 50,
     has_dependencies |-> Len(a.dependencies) > 0]

\* all(pre_edit_checks.values())
safe_to_edit(checks) ==
    /\ checks.file_exists /\ checks.file_readable /\ checks.syntax_valid
    /\ checks.complexity_manageable /\ checks.has_dependencies

\* OptimizedDeepCodeAgent.analyze_before_edit: no analysis for a file that
\* does not exist, else the (non-forced) analysis of the file, the checks on
\* it and whether they all hold
analyze_before_edit(c, fsys, p, t) ==
    IF ~fsys[Str(p)].exists
    THEN [success |-> FALSE, run |-> NoRun(c), checks |-> NoChecks,
          safe_to_edit |-> FALSE]
    ELSE LET run == analyze_file(c, fsys, p, FALSE, t)
             checks == pre_edit_checks(fsys, p, run.ret)
         IN  [success |-> TRUE, run |-> run, checks |-> checks,
              safe_to_edit |-> safe_to_edit(checks)]

\* what may go wrong inside smart_modify_file besides the conflict detector:
\*   "backup_fails"    create_backup raises
\*   "generate_fails"  the model's answer cannot be had
\*   "write_fails"     write_file raises and leaves the file as it was
Faults == {"none", "backup_fails", "generate_fails", "write_fails"}

\* what smart_modify_file returns and leaves behind: which dict it returns
\*   "missing"    that of analyze_before_edit for a file that does not exist
\*   "conflicts"  success False, with the conflicts
\*   "error"      success False, of the except branch
\*   "done"       success True, with the conflicts and the two analyses
\* the conflicts detect_conflicts gave it (none when it was not called),
\* the steps it went through in order, the cache, the files, the backups,
\* and the analyses it made (pre: analyze_before_edit; cur, new:
\* detect_conflicts; post: the forced analysis after the write)
Modified(result, conflicts, steps, c, fsys, b, pre, cur, new, post) ==
    [result |-> result, success |-> result = "done", conflicts |-> conflicts,
     steps |-> steps, cache |-> c, files |-> fsys, backups |-> b,
     pre |-> pre, cur |-> cur, new |-> new, post |-> post]

\* a faulty variant of write_gate: the new content is written whatever the
\* conflicts are
write_gate_Ungated(d, fsys, b, p, new_content, fault, pre, steps, t) ==
    LET fs2 == write_file(d.files, p, new_content)
        post == analyze_file(d.cache, fs2, p, TRUE, t)
    IN  Modified("done", d.conflicts, steps \o <<"write", "post">>,
                 post.cache, fs2, b, pre, d.cur, d.new, post)

\* steps 6 to 9 of smart_modify_file, once detect_conflicts has returned d:
\* the gate on the conflicts, the write and the analysis after it
write_gate(d, fsys, b, p, new_content, fault, pre, steps, t) ==
    IF HasError(d.conflicts)
    THEN Modified("conflicts", d.conflicts, steps, d.cache, d.files, b,
                  pre, d.cur, d.new, NoRun(d.cache))
    ELSE IF fault = "write_fails"
    THEN Modified("error", d.conflicts, Append(steps, "write"), d.cache,
                  d.files, b, pre, d.cur, d.new, NoRun(d.cache))
    ELSE LET fs2 == write_file(d.files, p, new_content)
             post == analyze_file(d.cache, fs2, p, TRUE, t)
         IN  Modified("done", d.conflicts, steps \o <<"write", "post">>,
                      post.cache, fs2, b, pre, d.cur, d.new, post)

\* a faulty variant of modify_analysed: a backup that cannot be made is
\* passed over and the modification goes on
modify_analysed_Unbacked(pre, fsys, b, p, new_content, backup, io, fault, t) ==
    LET none == NoRun(pre.cache)
        backed == backup /\ fsys[Str(p)].exists
        b1 == IF backed /\ fault # "backup_fails"
              THEN create_backup(b, fsys, p, t) ELSE b
        s1 == IF backed THEN <<"analyze", "backup">> ELSE <<"analyze">>
    IN  IF fault = "generate_fails"
        THEN Modified("error", <<>>, s1 \o <<"read", "generate">>,
                      pre.cache, fsys, b1, pre, none, none, none)
        ELSE write_gate(detect_conflicts(pre.cache, fsys, p, new_content, io,
                                         t),
                        fsys, b1, p, new_content, fault, pre,
                        s1 \o <<"read", "generate", "detect">>, t)

\* steps 2 to 9 of smart_modify_file, once analyze_before_edit has returned
\* the analysis pre
modify_analysed(pre, fsys, b, p, new_content, backup, io, fault, t) ==
    LET none == NoRun(pre.cache)
        backed == backup /\ fsys[Str(p)].exists
        b1 == IF backed THEN create_backup(b, fsys, p, t) ELSE b
        s1 == IF backed THEN <<"analyze", "backup">> ELSE <<"analyze">>
    IN  IF backed /\ fault = "backup_fails"
        THEN Modified("error", <<>>, s1, pre.cache, fsys, b, pre, none, none,
                      none)
        ELSE IF fault = "generate_fails"
        THEN Modified("error", <<>>, s1 \o <<"read", "generate">>,
                      pre.cache, fsys, b1, pre, none, none, none)
        ELSE write_gate(detect_conflicts(pre.cache, fsys, p, new_content, io,
                                         t),
                        fsys, b1, p, new_content, fault, pre,
                        s1 \o <<"read", "generate", "detect">>, t)

\* OptimizedDeepCodeAgent.smart_modify_file(p, description, backup) at time
\* t, the model answering new_content
smart_modify_file(c, fsys, b, p, new_content, backup, io, fault, t) ==
    IF ~fsys[Str(p)].exists
    THEN Modified("missing", <<>>, <<>>, c, fsys, b, NoRun(c), NoRun(c),
                  NoRun(c), NoRun(c))
    ELSE modify_analysed(analyze_before_edit(c, fsys, p, t).run, fsys, b, p,
                         new_content, backup, io, fault, t)

----------------------------------------------------------------------------
(* The state machine *)

NoStore == [analysis |-> NoAnalysis, time |-> -1]

\* the threads of the agent: the caller's and one of the pool's
Caller == "t1"

PoolWorker == "t2"

Threads == {Caller, PoolWorker}

\* a thread that is inside no call.  The fields of a thread:
\*   op, pc       the call it is in and the step it is at
\*   key, force   the arguments of analyze_file
\*   found        the analysis the try block has assembled
\*   ret, raised  what the call returned, or the exception it raised
\*   at           the time of its store, -1 when it made none
\*   overlap      its extraction ran while another thread was inside
\*                analyze_file for the same key
\*   future       the call was submitted to the pool by enhanced_chat
\*   late         the caller that submitted it has given up waiting
\*   n, used, seen, sum
\*                get_cache_stats: len(self.cache), the size the iterator
\*                took note of, the keys it has yielded, the sum so far
\*   since        enhanced_chat: the time of the submission
\*   new_content, conflicts
\*                detect_conflicts: its argument and its list of conflicts
Idle ==
    [op |-> "idle", pc |-> "idle", key |-> "", force |-> FALSE,
     found |-> NoAnalysis, ret |-> NoAnalysis, raised |-> "", at |-> -1,
     overlap |-> FALSE, future |-> FALSE, late |-> FALSE,
     n |-> -1, used |-> -1, seen |-> {}, sum |-> 0, since |-> -1,
     new_content |-> EmptyText, conflicts |-> <<>>]

\* the (analysis, time) the cache holds for a key, NoStore when it holds none
Held(c, k) ==
    IF CacheHas(c, k)
    THEN [analysis |-> CacheGet(c, k).analysis, time |-> CacheGet(c, k).time]
    ELSE NoStore

\* a call recomputed with success: it ran the extraction and what it
\* returned is not the minimal analysis of a failure
Recomputed(r) == r.extracted = 1 /\ r.ret.hash # EmptyHash

\* the record of a call: what was called, when, with which arguments, what the
\* cache held for its key before, and what the call returned (ret, extracted,
\* and rest, the entries the cache held for the other keys before:
\* analyze_file; stats: get_cache_stats; cleared, the number of entries
\* removed: clear_cache; conflicts, before, after, io, new_content and the
\* extractions of the two analyses, and prev_after, what the cache held for
\* the key of the temporary file: detect_conflicts; success, result,
\* steps, backup, file_before, the file as it was before the call, and post:
\* smart_modify_file; success, ret, extracted, checks and safe_to_edit:
\* analyze_before_edit)
NoCall ==
    [op |-> "init", key |-> "", force |-> FALSE, at |-> 0, prev |-> NoStore,
     ret |-> NoAnalysis, extracted |-> 0, stats |-> NoStats, cleared |-> 0,
     conflicts |-> <<>>, before |-> NoAnalysis, after |-> NoAnalysis,
     io |-> "", new_content |-> EmptyText, extracted_after |-> 0,
     success |-> FALSE, result |-> "", steps |-> <<>>,
     file_before |-> NoFile, post |-> NoAnalysis, prev_after |-> NoStore,
     rest |-> {}, checks |-> NoChecks, safe_to_edit |-> FALSE,
     backup |-> FALSE]

EnvStep(op, key) == [NoCall EXCEPT !.op = op, !.key = key, !.at = now]

Init ==
    /\ files = [k \in Keys |-> NoFile]
    /\ cache = {}
    /\ now = 0
    /\ stored = [k \in Keys |-> NoStore]
    /\ last = NoCall
    /\ backups = {}
    /\ threads = [w \in Threads |-> Idle]

\* the environment writes a file
WriteFile(p, text) ==
    /\ files[Str(p)] # File(text)
    /\ files' = [files EXCEPT ![Str(p)] = File(text)]
    /\ last' = EnvStep("write", Str(p))
    /\ UNCHANGED <<cache, now, stored, backups, threads>>

\* the environment deletes a file
DeleteFile(p) ==
    /\ files[Str(p)].exists
    /\ files' = [files EXCEPT ![Str(p)] = NoFile]
    /\ last' = EnvStep("delete", Str(p))
    /\ UNCHANGED <<cache, now, stored, backups, threads>>

\* time passes
Tick ==
    /\ now + TickLen <= MaxTicks * TickLen
    /\ now' = now + TickLen
    /\ last' = [EnvStep("tick", "") EXCEPT !.at = now + TickLen]
    /\ UNCHANGED <<files, cache, stored, backups, threads>>

\* a call of analyze_file(p, force_refresh=force)
AnalyzeFile(p, force) ==
    \E r \in {analyze_file(cache, files, p, force, now)} :
        /\ cache' = r.cache
        /\ stored' = IF Recomputed(r)
                     THEN [stored EXCEPT ![Str(p)] =
                             [analysis |-> r.ret, time |-> now]]
                     ELSE stored
        /\ last' = [NoCall EXCEPT !.op = "analyze", !.key = Str(p),
                                  !.force = force, !.at = now,
                                  !.prev = Held(cache, Str(p)),
                                  !.ret = r.ret, !.extracted = r.extracted,
                                  !.rest = {e \in cache : e.key # Str(p)}]
        /\ UNCHANGED <<files, now, backups, threads>>

\* a call of clear_cache()
ClearCache ==
    /\ cache' = clear_cache(cache)
    /\ stored' = [k \in Keys |-> NoStore]
    /\ last' = [EnvStep("clear", "") EXCEPT !.cleared = Cardinality(cache)]
    /\ UNCHANGED <<files, now, backups, threads>>

\* a call of get_cache_stats()
GetCacheStats ==
    /\ last' = [EnvStep("stats", "") EXCEPT !.stats = get_cache_stats(cache)]
    /\ UNCHANGED <<files, cache, now, stored, backups, threads>>

\* a call of detect_conflicts(p, new_content), the temporary file faring as io
DetectConflicts(p, new_content, io) ==
    \E r \in {detect_conflicts(cache, files, p, new_content, io, now)} :
        /\ cache' = r.cache
        /\ files' = r.files
        /\ stored' = [k \in Keys |->
                        CASE k = Str(p) /\ Recomputed(r.cur) ->
                               [analysis |-> r.cur.ret, time |-> now]
                          [] k = Str(TempPath(p)) /\ Recomputed(r.new) ->
                               [analysis |-> r.new.ret, time |-> now]
                          [] OTHER -> stored[k]]
        /\ last' = [NoCall EXCEPT !.op = "detect", !.key = Str(p),
                                  !.at = now, !.prev = Held(cache, Str(p)),
                                  !.conflicts = r.conflicts,
                                  !.before = r.cur.ret, !.after = r.new.ret,
                                  !.extracted = r.cur.extracted,
                                  !.extracted_after = r.new.extracted,
                                  !.io = io, !.new_content = new_content,
                                  !.prev_after =
                                     Held(cache, Str(TempPath(p)))]
        /\ UNCHANGED <<now, backups, threads>>

\* the successful recomputes of a sequence of analyze_file runs, each under
\* its key at time t, added to the history st
RECURSIVE Remember(_, _, _)
Remember(st, runs, t) ==
    IF runs = <<>> THEN st
    ELSE LET r == runs[1]
             st1 == IF Recomputed(r.run)
                    THEN [st EXCEPT ![r.key] =
                            [analysis |-> r.run.ret, time |-> t]]
                    ELSE st
         IN  Remember(st1, Tail(runs), t)

\* a call of smart_modify_file(p, description, backup), the model answering
\* new_content, the temporary file faring as io and the rest as fault
SmartModifyFile(p, new_content, backup, io, fault) ==
    \E r \in {smart_modify_file(cache, files, backups, p, new_content, backup,
                                io, fault, now)} :
        /\ cache' = r.cache
        /\ files' = r.files
        /\ backups' = r.backups
        /\ stored' = Remember(stored,
                              << [key |-> Str(p), run |-> r.pre],
                                 [key |-> Str(p), run |-> r.cur],
                                 [key |-> Str(TempPath(p)), run |-> r.new],
                                 [key |-> Str(p), run |-> r.post] >>, now)
        /\ last' = [NoCall EXCEPT !.op = "modify", !.key = Str(p),
                                  !.at = now, !.prev = Held(cache, Str(p)),
                                  !.ret = r.pre.ret,
                                  !.extracted = r.pre.extracted,
                                  !.conflicts = r.conflicts,
                                  !.before = r.cur.ret, !.after = r.new.ret,
                                  !.extracted_after = r.new.extracted,
                                  !.new_content = new_content,
                                  !.success = r.success,
                                  !.result = r.result, !.steps = r.steps,
                                  !.file_before = files[Str(p)],
                                  !.backup = backup,
                                  !.post = r.post.ret]
        /\ UNCHANGED <<now, threads>>

Next ==
    \/ \E p \in BasePaths, text \in DiskTexts : WriteFile(p, text)
    \/ \E p \in BasePaths : DeleteFile(p)
    \/ Tick
    \/ \E p \in BasePaths, force \in BOOLEAN : AnalyzeFile(p, force)
    \/ ClearCache
    \/ GetCacheStats

\* the analysis cache under the calls of analyze_file, clear_cache and
\* get_cache_stats, the files changing and time passing in between
Spec == Init /\ [][Next]_vars

\* no other file than p has been touched: a run of the conflict detector
\* works on one file
Solo(p) ==
    \A q \in AllPaths \ {p, TempPath(p)} :
       ~files[Str(q)].exists /\ ~CacheHas(cache, Str(q))

NextDC ==
    \/ \E p \in BasePaths, text \in DiskTexts : Solo(p) /\ WriteFile(p, text)
    \/ \E p \in BasePaths : Solo(p) /\ WriteFile(TempPath(p), EmptyText)
    \/ \E p \in BasePaths : Solo(p) /\ DeleteFile(p)
    \/ \E p \in BasePaths, force \in BOOLEAN : Solo(p) /\ AnalyzeFile(p, force)
    \/ \E p \in BasePaths, text \in NewTexts, io \in IOOutcomes :
         Solo(p) /\ DetectConflicts(p, text, io)
    \/ ClearCache

\* the conflict detector at work on one file, between edits and analyses of
\* that file
SpecDC == Init /\ [][NextDC]_vars

\* a call of analyze_before_edit(p, description)
AnalyzeBeforeEdit(p) ==
    \E r \in {analyze_before_edit(cache, files, p, now)} :
        /\ cache' = r.run.cache
        /\ stored' = IF Recomputed(r.run)
                     THEN [stored EXCEPT ![Str(p)] =
                             [analysis |-> r.run.ret, time |-> now]]
                     ELSE stored
        /\ last' = [NoCall EXCEPT !.op = "before_edit", !.key = Str(p),
                                  !.at = now, !.prev = Held(cache, Str(p)),
                                  !.success = r.success,
                                  !.ret = r.run.ret,
                                  !.extracted = r.run.extracted,
                                  !.checks = r.checks,
                                  !.safe_to_edit = r.safe_to_edit]
        /\ UNCHANGED <<files, now, backups, threads>>

NextBE ==
    \/ \E p \in BasePaths, text \in DiskTexts \cup {EmptyText} :
         WriteFile(p, text)
    \/ \E p \in BasePaths : DeleteFile(p)
    \/ \E p \in BasePaths : AnalyzeBeforeEdit(p)
    \/ ClearCache

\* the agent looking at files before it edits them
SpecBE == Init /\ [][NextBE]_vars

NextSM ==
    \/ \E p \in BasePaths, text \in AgentTexts : Solo(p) /\ WriteFile(p, text)
    \/ \E p \in BasePaths : Solo(p) /\ DeleteFile(p)
    \/ \E p \in BasePaths, text \in NewTexts, backup \in BOOLEAN,
          io \in IOOutcomes \ {"unlink_fails"}, fault \in Faults :
         /\ Solo(p)
         /\ fault # "none" => io = "ok"
         /\ backup => Cardinality(backups) < MaxBackups
         /\ SmartModifyFile(p, text, backup, io, fault)

\* the agent modifying one file, between edits and analyses of that file
SpecSM == Init /\ [][NextSM]_vars

\* the texts the files hold before the agent edits them: with functions,
\* and with none
EditTexts == {K1, EmptyText}

NextEdit ==
    \/ \E p \in BasePaths, text \in EditTexts : Solo(p) /\ WriteFile(p, text)
    \/ \E p \in BasePaths, text \in NewTexts, backup \in BOOLEAN :
         /\ Solo(p)
         /\ backup => Cardinality(backups) < MaxBackups
         /\ SmartModifyFile(p, text, backup, "ok", "none")
    \/ \E p \in BasePaths : Solo(p) /\ AnalyzeFile(p, FALSE)

\* the agent modifying one file with nothing going wrong around it, and the
\* analyses of the file that follow
SpecEdit == Init /\ [][NextEdit]_vars

\* a call of analyze_file(p, force_refresh=force) in which the
\* language-specific issue detector raises
AnalyzeFileDetectorRaises(p, force) ==
    \E r \in {analyze_file_raising(cache, files, p, force, now)} :
        /\ cache' = r.cache
        /\ stored' = IF Recomputed(r)
                     THEN [stored EXCEPT ![Str(p)] =
                             [analysis |-> r.ret, time |-> now]]
                     ELSE stored
        /\ last' = [NoCall EXCEPT !.op = "analyze", !.key = Str(p),
                                  !.force = force, !.at = now,
                                  !.prev = Held(cache, Str(p)),
                                  !.ret = r.ret, !.extracted = r.extracted,
                                  !.rest = {e \in cache : e.key # Str(p)},
                                  !.io = "detector_raises"]
        /\ UNCHANGED <<files, now, backups, threads>>

NextFaulty ==
    \/ \E p \in BasePaths, text \in DiskTexts : WriteFile(p, text)
    \/ \E p \in BasePaths : DeleteFile(p)
    \/ \E p \in BasePaths, force \in BOOLEAN : AnalyzeFile(p, force)
    \/ \E p \in BasePaths, force \in BOOLEAN :
         AnalyzeFileDetectorRaises(p, force)
    \/ ClearCache

\* the analysis cache when an issue detector may fail
SpecFaulty == Init /\ [][NextFaulty]_vars

\* the analyzer is made in a directory that holds one Python file, its
\* function holding any of the statements that nest at most MaxDepth deep
InitTrees ==
    /\ \E text \in TreeTexts :
          files = [k \in Keys |->
                     IF k = Str(PyPath) THEN File(text) ELSE NoFile]
    /\ cache = {}
    /\ now = 0
    /\ stored = [k \in Keys |-> NoStore]
    /\ last = NoCall
    /\ backups = {}
    /\ threads = [w \in Threads |-> Idle]

NextTrees ==
    \/ \E force \in BOOLEAN : AnalyzeFile(PyPath, force)
    \/ DeleteFile(PyPath)
    \/ ClearCache

\* the analyses of that file
SpecTrees == InitTrees /\ [][NextTrees]_vars

----------------------------------------------------------------------------
(* The analyzer under several threads.  A thread may be switched out        *)
(* between any two statements, so each access of the shared dict is a step *)
(* of its own; a single dict operation (test, read, store, clear, len, one *)
(* step of an iterator) is atomic.                                         *)

\* the texts the files hold in the threaded runs
ThreadTexts == {K1, K2}

\* the files the threads work on
ThreadPaths == {PyPath}

\* the thread is inside no call
Free(w) == threads[w].pc \in {"idle", "done"}

\* a thread entering a call
Call(op, key, force) == [Idle EXCEPT !.op = op, !.key = key, !.force = force]

\* the thread w is inside analyze_file for the key k
Analyzing(w, k) ==
    /\ threads[w].op = "analyze"
    /\ threads[w].key = k
    /\ threads[w].pc \in {"test", "get", "extract", "store"}

\* another process writes a file
Edit(p, text) ==
    /\ files[Str(p)] # File(text)
    /\ files' = [files EXCEPT ![Str(p)] = File(text)]
    /\ UNCHANGED <<cache, now, stored, last, backups, threads>>

\* another process deletes a file
Remove(p) ==
    /\ files[Str(p)].exists
    /\ files' = [files EXCEPT ![Str(p)] = NoFile]
    /\ UNCHANGED <<cache, now, stored, last, backups, threads>>

\* time passes
Clock ==
    /\ now + TickLen <= MaxThreadTicks * TickLen
    /\ now' = now + TickLen
    /\ UNCHANGED <<files, cache, stored, last, backups, threads>>

\* the thread w calls analyze_file(p, force_refresh=force)
BeginAnalyze(w, p, force) ==
    /\ Free(w)
    /\ threads' = [threads EXCEPT
                     ![w] = [Call("analyze", Str(p), force)
                               EXCEPT !.pc = "test"]]
    /\ UNCHANGED <<files, cache, now, stored, last, backups>>

\* line 92: not force_refresh and file_str in self.cache
Test(w) ==
    /\ threads[w].pc = "test"
    /\ threads' = [threads EXCEPT
                     ![w].pc = IF /\ ~threads[w].force
                                  /\ CacheHas(cache, threads[w].key)
                               THEN "get" ELSE "extract"]
    /\ UNCHANGED <<files, cache, now, stored, last, backups>>

\* lines 93-95: self.cache[file_str], which raises KeyError when the key is
\* gone, outside the try block; then the test of the age
Get(w) ==
    /\ threads[w].pc = "get"
    /\ threads' =
         [threads EXCEPT
            ![w] = IF ~CacheHas(cache, threads[w].key)
                   THEN [@ EXCEPT !.pc = "done", !.raised = "KeyError"]
                   ELSE IF now - CacheGet(cache, threads[w].key).time
                             < CacheTTL
                   THEN [@ EXCEPT !.pc = "done",
                                  !.ret =
                                     CacheGet(cache, threads[w].key).analysis]
                   ELSE [@ EXCEPT !.pc = "extract"]]
    /\ UNCHANGED <<files, cache, now, stored, last, backups>>

\* lines 99-132 and 139-153: the try block up to the store, and the except
\* branch
ExtractStep(w) ==
    /\ threads[w].pc = "extract"
    /\ LET got == Extract(files, PathOf(threads[w].key))
           meets == \E u \in Threads \ {w} : Analyzing(u, threads[w].key)
       IN  threads' =
             [threads EXCEPT
                ![w] = IF got.raised
                       THEN [@ EXCEPT !.pc = "done", !.overlap = meets,
                                      !.ret = FailedAnalysis(threads[w].key)]
                       ELSE [@ EXCEPT !.pc = "store", !.overlap = meets,
                                      !.found = got.value]]
    /\ UNCHANGED <<files, cache, now, stored, last, backups>>

\* a faulty variant of StoreStep: an entry the cache already holds for the
\* key is kept
StoreStep_KeepsFirst(w) ==
    /\ threads[w].pc = "store"
    /\ cache' = IF CacheHas(cache, threads[w].key) THEN cache
                ELSE CacheStore(cache, threads[w].key, threads[w].found, now)
    /\ threads' = [threads EXCEPT
                     ![w] = [@ EXCEPT !.pc = "done",
                                      !.ret = threads[w].found,
                                      !.at = now]]
    /\ UNCHANGED <<files, now, stored, last, backups>>

\* lines 135-137: self.cache[file_str] = (file_analysis, time.time())
StoreStep(w) ==
    /\ threads[w].pc = "store"
    /\ cache' = CacheStore(cache, threads[w].key, threads[w].found, now)
    /\ threads' = [threads EXCEPT
                     ![w] = [@ EXCEPT !.pc = "done",
                                      !.ret = threads[w].found,
                                      !.at = now]]
    /\ UNCHANGED <<files, now, stored, last, backups>>

\* the thread w calls clear_cache(): self.cache.clear()
ClearStep(w) ==
    /\ Free(w)
    /\ cache' = clear_cache(cache)
    /\ threads' = [threads EXCEPT
                     ![w] = [Call("clear", "", FALSE) EXCEPT !.pc = "done"]]
    /\ UNCHANGED <<files, now, stored, last, backups>>

\* the thread w calls get_cache_stats(); line 545: len(self.cache)
LenStep(w) ==
    /\ Free(w)
    /\ threads' = [threads EXCEPT
                     ![w] = [Call("stats", "", FALSE)
                               EXCEPT !.pc = "values",
                                      !.n = Cardinality(cache)]]
    /\ UNCHANGED <<files, cache, now, stored, last, backups>>

\* line 547: self.cache.values(), whose iterator takes note of the size
ValuesStep(w) ==
    /\ threads[w].pc = "values"
    /\ threads' = [threads EXCEPT
                     ![w] = [@ EXCEPT !.pc = "iter",
                                      !.used = Cardinality(cache)]]
    /\ UNCHANGED <<files, cache, now, stored, last, backups>>

\* line 547: one step of the iterator, which raises RuntimeError when the
\* dict has changed size, and the addend len(str(analysis))
IterStep(w) ==
    /\ threads[w].pc = "iter"
    /\ \/ /\ Cardinality(cache) # threads[w].used
          /\ threads' = [threads EXCEPT
                           ![w] = [@ EXCEPT !.pc = "done",
                                            !.raised = "RuntimeError"]]
       \/ /\ Cardinality(cache) = threads[w].used
          /\ \A e \in cache : e.key \in threads[w].seen
          /\ threads' = [threads EXCEPT ![w] = [@ EXCEPT !.pc = "done"]]
       \/ /\ Cardinality(cache) = threads[w].used
          /\ \E e \in cache :
               /\ e.key \notin threads[w].seen
               /\ threads' =
                    [threads EXCEPT
                       ![w] = [@ EXCEPT !.seen = @ \cup {e.key},
                                        !.sum = @ + ReprLen(e.analysis)]]
    /\ UNCHANGED <<files, cache, now, stored, last, backups>>

\* enhanced_chat, lines 294-297: the caller submits analyze_file(p) to the
\* pool and waits for the future
Submit(p) ==
    /\ Free(Caller) /\ Free(PoolWorker)
    /\ files[Str(p)].exists
    /\ threads' =
         [threads EXCEPT
            ![Caller] = [Call("chat", Str(p), FALSE)
                           EXCEPT !.pc = "wait", !.since = now],
            ![PoolWorker] = [Call("analyze", Str(p), FALSE)
                               EXCEPT !.pc = "test", !.future = TRUE]]
    /\ UNCHANGED <<files, cache, now, stored, last, backups>>

\* line 299: future.result(timeout=5) returns what the worker returned, or
\* raises what it raised
Deliver ==
    /\ threads[Caller].pc = "wait"
    /\ threads[PoolWorker].pc = "done"
    /\ threads' = [threads EXCEPT
                     ![Caller] = [@ EXCEPT
                                    !.pc = "done",
                                    !.ret = threads[PoolWorker].ret,
                                    !.raised = threads[PoolWorker].raised]]
    /\ UNCHANGED <<files, cache, now, stored, last, backups>>

\* a variant of TimeoutStep: the caller that gives up cancels the worker
TimeoutStep_Cancels ==
    /\ threads[Caller].pc = "wait"
    /\ threads[PoolWorker].pc # "done"
    /\ now - threads[Caller].since >= ChatTimeout
    /\ threads' = [threads EXCEPT
                     ![Caller] = [@ EXCEPT !.pc = "done", !.ret = NoAnalysis,
                                           !.raised = "TimeoutError"],
                     ![PoolWorker] = Idle]
    /\ UNCHANGED <<files, cache, now, stored, last, backups>>

\* lines 300-301: the future is not done when the timeout has passed; the
\* caller goes on with file_analysis = None, the worker goes on too
TimeoutStep ==
    /\ threads[Caller].pc = "wait"
    /\ threads[PoolWorker].pc # "done"
    /\ now - threads[Caller].since >= ChatTimeout
    /\ threads' = [threads EXCEPT
                     ![Caller] = [@ EXCEPT !.pc = "done", !.ret = NoAnalysis,
                                           !.raised = "TimeoutError"],
                     ![PoolWorker] = [@ EXCEPT !.late = TRUE]]
    /\ UNCHANGED <<files, cache, now, stored, last, backups>>

NextThreads ==
    \/ \E p \in ThreadPaths, text \in ThreadTexts : Edit(p, text)
    \/ \E p \in ThreadPaths : Remove(p)
    \/ Clock
    \/ \E w \in Threads, p \in ThreadPaths, force \in BOOLEAN :
         BeginAnalyze(w, p, force)
    \/ \E w \in Threads : Test(w)
    \/ \E w \in Threads : Get(w)
    \/ \E w \in Threads : ExtractStep(w)
    \/ \E w \in Threads : StoreStep(w)
    \/ \E w \in Threads : ClearStep(w)
    \/ \E w \in Threads : LenStep(w)
    \/ \E w \in Threads : ValuesStep(w)
    \/ \E w \in Threads : IterStep(w)
    \/ \E p \in ThreadPaths : Submit(p)
    \/ Deliver
    \/ TimeoutStep

\* the analyzer called from two threads at once, the files changing and
\* time passing in between
SpecThreads == Init /\ [][NextThreads]_vars

----------------------------------------------------------------------------
(* The conflict detector under several threads.  Each call of analyze_file *)
(* and each operation on the temporary file is a step of its own.          *)

\* the texts proposed as new content in the threaded runs
RaceTexts == {K1, K2, K3}

\* the analyzer is made in a directory that holds one Python file
InitRace ==
    /\ \E text \in ThreadTexts :
          files = [k \in Keys |->
                     IF k = Str(PyPath) THEN File(text) ELSE NoFile]
    /\ cache = {}
    /\ now = 0
    /\ stored = [k \in Keys |-> NoStore]
    /\ last = NoCall
    /\ backups = {}
    /\ threads = [w \in Threads |-> Idle]

\* the path of the call the thread w is in
PathIn(w) == PathOf(threads[w].key)

\* the thread w calls detect_conflicts(p, new_content); line 487:
\* current_analysis = self.analyze_file(file_path)
BeginDetect(w, p, new_content) ==
    /\ Free(w)
    /\ \E r \in {analyze_file(cache, files, p, FALSE, now)} :
          /\ cache' = r.cache
          /\ threads' = [threads EXCEPT
                           ![w] = [Call("detect", Str(p), FALSE)
                                     EXCEPT !.pc = "write",
                                            !.new_content = new_content,
                                            !.found = r.ret]]
    /\ UNCHANGED <<files, now, stored, last, backups>>

\* lines 490-491: temp_path.write_text(new_content)
WriteTemp(w) ==
    /\ threads[w].pc = "write"
    /\ files' = [files EXCEPT ![Str(TempPath(PathIn(w)))] =
                                File(threads[w].new_content)]
    /\ threads' = [threads EXCEPT ![w].pc = "analyze"]
    /\ UNCHANGED <<cache, now, stored, last, backups>>

\* lines 493-522: the analysis of the temporary file as it is now, and the
\* two loops over the functions
AnalyzeTemp(w) ==
    /\ threads[w].pc = "analyze"
    /\ \E r \in {analyze_file(cache, files, TempPath(PathIn(w)), TRUE, now)} :
          LET cf == Functions(threads[w].found.elements)
              nf == Functions(r.ret.elements)
          IN  /\ cache' = r.cache
              /\ threads' = [threads EXCEPT
                               ![w] = [@ EXCEPT
                                         !.pc = "exists",
                                         !.ret = r.ret,
                                         !.conflicts =
                                            RemovedConflicts(cf, nf)
                                              \o SignatureConflicts(cf, nf)]]
    /\ UNCHANGED <<files, now, stored, last, backups>>

\* line 526: if temp_path.exists()
ExistsTemp(w) ==
    /\ threads[w].pc = "exists"
    /\ threads' = [threads EXCEPT
                     ![w].pc = IF files[Str(TempPath(PathIn(w)))].exists
                               THEN "unlink" ELSE "done"]
    /\ UNCHANGED <<files, cache, now, stored, last, backups>>

\* line 527: temp_path.unlink(), which raises FileNotFoundError when the
\* file is gone; lines 529-534: the outer except branch
UnlinkTemp(w) ==
    /\ threads[w].pc = "unlink"
    /\ IF files[Str(TempPath(PathIn(w)))].exists
       THEN /\ files' = [files EXCEPT ![Str(TempPath(PathIn(w)))] = NoFile]
            /\ threads' = [threads EXCEPT ![w].pc = "done"]
       ELSE /\ files' = files
            /\ threads' = [threads EXCEPT
                             ![w] = [@ EXCEPT
                                       !.pc = "done",
                                       !.conflicts =
                                          Append(@, AnalysisError)]]
    /\ UNCHANGED <<cache, now, stored, last, backups>>

NextRace ==
    \/ \E w \in Threads, p \in ThreadPaths, text \in RaceTexts :
         BeginDetect(w, p, text)
    \/ \E w \in Threads : WriteTemp(w)
    \/ \E w \in Threads : AnalyzeTemp(w)
    \/ \E w \in Threads : ExistsTemp(w)
    \/ \E w \in Threads : UnlinkTemp(w)

\* detect_conflicts called from two threads at once on one file
SpecRace == InitRace /\ [][NextRace]_vars

----------------------------------------------------------------------------
(* Properties of the analysis cache, checked under Spec *)

\* the last call was analyze_file
Analyzed == last.op = "analyze"

\* the cache held an entry for the key of the last call, aged below the TTL
\* when the call was made
HadFresh == last.prev # NoStore /\ last.at - last.prev.time < CacheTTL

\* the cache held an entry for the key of the last call, aged the TTL or more
HadExpired == last.prev # NoStore /\ last.at - last.prev.time >= CacheTTL

\* the file of the last call, as it is now
TheFile == files[last.key]

\* what the last call returned is the analysis of the present content of
\* its file
OfPresentContent ==
    /\ TheFile.exists
    /\ last.ret.hash = Md5(TheFile.text)
    /\ last.ret.file_path = last.key

\* what the last call returned is the minimal analysis of a failure
Degraded ==
    /\ last.ret.hash = EmptyHash
    /\ last.ret.language = "unknown"
    /\ last.ret.elements = <<>>

\* C1 (cache hit): a non-forced analyze_file for a path whose entry is aged
\* below the TTL returns the cached analysis, runs no extraction and leaves
\* the entry as it was.
C1_CacheHit ==
    (Analyzed /\ ~last.force /\ HadFresh) =>
        /\ last.ret = last.prev.analysis
        /\ last.extracted = 0
        /\ Held(cache, last.key) = last.prev
        /\ stored[last.key] = last.prev

\* a hit on an entry cached one step of the clock earlier
C1_Witness ==
    /\ Analyzed /\ ~last.force /\ HadFresh
    /\ last.at > last.prev.time
    /\ last.extracted = 0
    /\ last.ret = last.prev.analysis

\* C2 as stated (cache expiry): a non-forced analyze_file for a path whose
\* entry is aged the TTL or more runs a fresh extraction and replaces the
\* entry by the new analysis, stamped with the present time.
C2_Expiry_AsStated ==
    (Analyzed /\ ~last.force /\ HadExpired) =>
        /\ last.extracted = 1
        /\ Held(cache, last.key) = [analysis |-> last.ret, time |-> last.at]

\* C2 as amended: a non-forced analyze_file for a path whose entry is aged the
\* TTL or more (exactly the TTL included) runs a fresh extraction; when the
\* extraction succeeds the entry is replaced by the new analysis of the
\* present content, stamped with the present time; when it fails the minimal
\* analysis is returned and the expired entry stays as it was.
C2_Expiry ==
    (Analyzed /\ ~last.force /\ HadExpired) =>
        /\ last.extracted = 1
        /\ \/ /\ OfPresentContent
              /\ Held(cache, last.key) =
                   [analysis |-> last.ret, time |-> last.at]
           \/ /\ Degraded
              /\ Held(cache, last.key) = last.prev

\* an entry aged exactly the TTL is replaced by the analysis of new content
C2_Witness ==
    /\ Analyzed /\ ~last.force
    /\ last.prev # NoStore
    /\ last.at - last.prev.time = CacheTTL
    /\ last.extracted = 1
    /\ OfPresentContent
    /\ last.ret # last.prev.analysis
    /\ Held(cache, last.key) = [analysis |-> last.ret, time |-> last.at]

\* C3 (forced refresh): analyze_file with force_refresh runs the extraction
\* whatever the cache holds; what it returns is the analysis of the present
\* content of the file or the minimal analysis of a failure, never an entry
\* of another content.
C3_ForcedRefresh ==
    (Analyzed /\ last.force) =>
        /\ last.extracted = 1
        /\ OfPresentContent \/ Degraded

\* a forced call made while the cache held an entry aged below the TTL, of
\* another content than the file's
C3_Witness ==
    /\ Analyzed /\ last.force /\ HadFresh
    /\ last.extracted = 1
    /\ OfPresentContent
    /\ last.ret # last.prev.analysis

\* C4 as stated (store on recompute): every analyze_file that is not served
\* from the cache stores what it returns under the path with the present
\* time, the minimal analysis of a failure included.
C4_StoreOnRecompute_AsStated ==
    (Analyzed /\ last.extracted = 1) =>
        Held(cache, last.key) = [analysis |-> last.ret, time |-> last.at]

\* C4 as amended: every analyze_file that is not served from the cache and
\* whose extraction succeeds stores what it returns under the path with the
\* present time, so that a non-forced call that follows at once returns the
\* same value; one whose extraction fails returns the minimal analysis, does
\* not store it and leaves the cache as it was.
C4_StoreOnRecompute ==
    (Analyzed /\ last.extracted = 1) =>
        \/ /\ OfPresentContent
           /\ Held(cache, last.key) = [analysis |-> last.ret, time |-> last.at]
           /\ last.at = now =>
                analyze_file(cache, files, PathOf(last.key), FALSE, now).ret
                  = last.ret
        \/ /\ Degraded
           /\ Held(cache, last.key) = last.prev

\* a recompute that overwrote the entry the cache held
C4_Witness ==
    /\ Analyzed /\ last.extracted = 1
    /\ last.prev # NoStore
    /\ OfPresentContent
    /\ last.ret # last.prev.analysis
    /\ Held(cache, last.key) = [analysis |-> last.ret, time |-> last.at]

\* what the last call returned is an analysis of another content than the
\* file has now (or the file is gone)
Stale ==
    /\ last.ret.hash # EmptyHash
    /\ ~TheFile.exists \/ last.ret.hash # Md5(TheFile.text)

\* C5 (time-bounded staleness): a hit is decided by the path and the age
\* alone: a non-forced analyze_file for a path whose entry is aged below the
\* TTL returns the entry also when the file has changed or is gone; and an
\* analysis of another content than the present one is returned only so,
\* hence never once the entry is aged the TTL.
C5_Staleness ==
    Analyzed =>
        /\ (~last.force /\ HadFresh) => last.ret = last.prev.analysis
        /\ Stale => /\ ~last.force /\ HadFresh
                    /\ last.ret = last.prev.analysis

\* a hit that returned the analysis of a content the file no longer has
C5_Witness ==
    /\ Analyzed /\ ~last.force /\ HadFresh
    /\ TheFile.exists
    /\ last.ret.hash # EmptyHash
    /\ last.ret.hash # Md5(TheFile.text)

\* C6 (one entry per path): the cache holds at most one entry per key, and
\* each entry is the analysis of the last successful recompute of its key,
\* with the time of that recompute.
C6_OneEntryPerPath ==
    /\ \A e1, e2 \in cache : e1.key = e2.key => e1 = e2
    /\ \A e \in cache :
         stored[e.key] = [analysis |-> e.analysis, time |-> e.time]

\* both paths are cached and the last call overwrote the older entry of its
\* path
C6_Witness ==
    /\ Analyzed /\ last.extracted = 1
    /\ last.prev # NoStore
    /\ last.prev.time < last.at
    /\ last.ret # last.prev.analysis
    /\ Cardinality({e.key : e \in cache}) = 2
    /\ Held(cache, last.key) = [analysis |-> last.ret, time |-> last.at]

\* C7 (clear_cache): once clear_cache has returned the cache is empty and
\* get_cache_stats reports no file and no memory; the non-forced analyze_file
\* that follows recomputes, whatever its path; and cached_files is at all
\* times the number of distinct keys in the cache.
C7_ClearCache ==
    [][ /\ last'.op = "clear" =>
              /\ cache' = {}
              /\ get_cache_stats(cache').cached_files = 0
              /\ get_cache_stats(cache').memory_usage = 0
        /\ (last.op = "clear" /\ last'.op = "stats") =>
              /\ last'.stats.cached_files = 0
              /\ last'.stats.memory_usage = 0
        /\ (last.op = "clear" /\ last'.op = "analyze" /\ ~last'.force) =>
              last'.extracted = 1
        /\ get_cache_stats(cache').cached_files =
              Cardinality({e.key : e \in cache'})
        /\ last'.op = "stats" =>
              last'.stats.cached_files = Cardinality({e.key : e \in cache})
      ]_vars

\* clear_cache has just removed the entries of both paths
C7_Witness ==
    /\ last.op = "clear"
    /\ last.cleared = 2
    /\ cache = {}

----------------------------------------------------------------------------
(* Properties of the conflict detector, checked under SpecDC *)

\* the last call was detect_conflicts
Detected == last.op = "detect"

\* the names of the function elements of an analysis
FunctionNames(a) ==
    {a.elements[i].name :
       i \in {j \in DOMAIN a.elements : a.elements[j].type = "function"}}

\* the conflicts of a type that the last call returned, as places in the list
ConflictsOf(type) ==
    {i \in DOMAIN last.conflicts : last.conflicts[i].type = type}

\* the conflicts that the last call returned for a name
ConflictsFor(type, name) ==
    {i \in ConflictsOf(type) : last.conflicts[i].element = name}

\* detect_conflicts came to analyse the new content
AfterAnalysed == last.after # NoAnalysis

\* C8 (removed function): for every function name among the function
\* elements of the before-analysis and not among those of the analysis of
\* the new content, detect_conflicts returns exactly one removed_function
\* conflict, of severity error, that names it; and it returns no
\* removed_function conflict for any other name.
C8_RemovedFunction ==
    (Detected /\ AfterAnalysed) =>
        LET gone == FunctionNames(last.before) \ FunctionNames(last.after)
        IN  /\ \A n \in gone :
                 /\ Cardinality(ConflictsFor("removed_function", n)) = 1
                 /\ \A i \in ConflictsFor("removed_function", n) :
                      last.conflicts[i].severity = "error"
            /\ \A i \in ConflictsOf("removed_function") :
                 last.conflicts[i].element \in gone

\* the function g was replaced by a class g: one removed_function conflict,
\* for g, and f is kept
C8_Witness ==
    /\ Detected /\ AfterAnalysed
    /\ last.after.hash # EmptyHash
    /\ FunctionNames(last.before) = {"f", "g"}
    /\ FunctionNames(last.after) = {"f"}
    /\ \E i \in DOMAIN last.after.elements :
         last.after.elements[i].name = "g"
    /\ Cardinality(ConflictsOf("removed_function")) = 1
    /\ Cardinality(ConflictsFor("removed_function", "g")) = 1

\* the text an analysis was made from
TextOf(a) == AllTexts[a.hash]

\* the parameters a text gives to the function of a name
SourceParams(text, name) ==
    LET ds == SelectSeq(text.decls,
                        LAMBDA d : d.kind = "def" /\ d.name = name)
    IN  ds[Len(ds)].params

\* C9 (signature change): for every function name in both the
\* before-analysis and the after-analysis, whatever the language: when the
\* ordered parameters of the two definitions differ, detect_conflicts
\* returns exactly one signature_change conflict, of severity warning, that
\* names it, and no removed_function conflict for it; when they do not
\* differ it returns no conflict for it.
C9_SignatureChange ==
    (Detected /\ last.before.hash # EmptyHash /\ AfterAnalysed
       /\ last.after.hash # EmptyHash) =>
        \A n \in FunctionNames(last.before) \cap FunctionNames(last.after) :
           IF SourceParams(TextOf(last.before), n)
                # SourceParams(TextOf(last.after), n)
           THEN /\ Cardinality(ConflictsFor("signature_change", n)) = 1
                /\ \A i \in ConflictsFor("signature_change", n) :
                     last.conflicts[i].severity = "warning"
                /\ ConflictsFor("removed_function", n) = {}
           ELSE /\ ConflictsFor("signature_change", n) = {}
                /\ ConflictsFor("removed_function", n) = {}

\* C9 for the files analysed from the syntax tree (.py) alone
C9_SignatureChange_Python ==
    (Detected /\ PathOf(last.key).suffix = ".py") => C9_SignatureChange

\* the analysis of the new content failed inside detect_conflicts: the
\* temporary file could not be written or read, or the extractor raised
AfterFailed ==
    \/ last.io = "write_fails"
    \/ last.io = "garbled"
    \/ last.after.hash = EmptyHash

\* C10 (failure of the re-extraction): whenever the analysis of the new
\* content fails inside detect_conflicts, it returns exactly one conflict,
\* of type analysis_error and severity error, and no removed_function or
\* signature_change conflict.
C10_ReextractionFailure ==
    (Detected /\ AfterFailed) =>
        /\ Len(last.conflicts) = 1
        /\ last.conflicts[1].type = "analysis_error"
        /\ last.conflicts[1].severity = "error"

----------------------------------------------------------------------------
(* Properties of the agent's modification of a file, checked under SpecSM *)

\* the last call was smart_modify_file
Modifying == last.op = "modify"

\* the place of a step among the steps the last call went through, 0 when it
\* did not go through it
StepAt(step) ==
    IF \E i \in DOMAIN last.steps : last.steps[i] = step
    THEN CHOOSE i \in DOMAIN last.steps : last.steps[i] = step
    ELSE 0

\* C11 (write gate): smart_modify_file calls write_file only after
\* detect_conflicts has returned for the proposed content and only when no
\* conflict it returned has severity error; when one has, the file is left
\* with its previous content and the call returns success False with the
\* conflicts; when none has (none at all, or warnings alone) the write is
\* made, and a call that returns success True leaves the file with the
\* proposed content.
C11_WriteGate ==
    Modifying =>
        /\ files[last.key] # last.file_before => StepAt("write") > 0
        /\ StepAt("write") > 0 =>
              /\ StepAt("detect") > 0
              /\ StepAt("detect") < StepAt("write")
              /\ ~HasError(last.conflicts)
        /\ HasError(last.conflicts) =>
              /\ files[last.key] = last.file_before
              /\ ~last.success
              /\ last.result = "conflicts"
        /\ (StepAt("detect") > 0 /\ ~HasError(last.conflicts)) =>
              StepAt("write") > 0
        /\ last.success =>
              /\ StepAt("write") > 0
              /\ files[last.key] = File(last.new_content)

\* a modification with a signature_change warning and no error went
\* through: the file holds the new content
C11_Witness ==
    /\ Modifying /\ last.success
    /\ \E i \in DOMAIN last.conflicts : last.conflicts[i].severity = "warning"
    /\ ~HasError(last.conflicts)
    /\ files[last.key] = File(last.new_content)
    /\ files[last.key] # last.file_before

\* a modification that removes a function was refused: the file is as it was
C11_Blocked ==
    /\ Modifying /\ ~last.success
    /\ HasError(last.conflicts)
    /\ last.file_before # File(last.new_content)
    /\ files[last.key] = last.file_before

----------------------------------------------------------------------------
(* Further properties of the conflict detector, checked under SpecDC *)

\* C12 (no filesystem side effect of conflict detection): on every path
\* through detect_conflicts the files after the call are the files before
\* it: the temporary file '<stem>.temp<suffix>' does not exist afterwards
\* and no file that existed before has been overwritten or deleted.
C12_NoFilesystemEffect ==
    [][last'.op = "detect" => files' = files]_vars

\* the analysis detect_conflicts made of the new content is the minimal
\* analysis of a failure
AfterDegraded ==
    /\ last.after.hash = EmptyHash
    /\ last.after.language = "unknown"
    /\ last.after.elements = <<>>

\* C13 (fresh after-analysis): the after-analysis detect_conflicts uses is
\* extracted in the call itself, from new_content and by the extractor of
\* the original file's suffix (or is the minimal analysis of the failure of
\* that extraction); it is never a value served from the cache, whatever
\* the cache holds for the key of the temporary file.
C13_FreshAfterAnalysis ==
    (Detected /\ AfterAnalysed) =>
        /\ last.extracted_after = 1
        /\ \/ AfterDegraded
           \/ /\ last.after.hash = Md5(last.new_content)
              /\ last.after.language =
                   detect_language(PathOf(last.key).suffix)
              /\ last.after.elements =
                   analyzer(PathOf(last.key).suffix, last.new_content).value
              /\ last.after.file_path = Str(TempPath(PathOf(last.key)))

\* the cache held an entry for the temporary file, made from another content
\* in an earlier call and aged below the TTL, and the call analysed the new
\* content all the same
C13_Witness ==
    /\ Detected /\ AfterAnalysed
    /\ last.prev_after # NoStore
    /\ last.at - last.prev_after.time < CacheTTL
    /\ last.after.hash = Md5(last.new_content)
    /\ last.after # last.prev_after.analysis

----------------------------------------------------------------------------
(* Properties of the analyzer under several threads, checked under         *)
(* SpecThreads                                                             *)

\* the thread w takes a step that reads or writes the cache map
CacheAccess(w) ==
    /\ threads'[w] # threads[w]
    /\ \/ threads[w].pc \in {"test", "get", "store", "values", "iter"}
       \/ Free(w) /\ threads'[w].op \in {"clear", "stats"}

\* the thread w is between two steps of one access of the cache map: past
\* the membership test and before the read of the entry, or inside the
\* iteration of get_cache_stats
InSection(w) == threads[w].pc \in {"get", "iter"}

\* C14 (mutual exclusion): no thread reads or writes the cache map while
\* another thread is between the steps of its own access of it.
C14_MutualExclusion ==
    [][\A w \in Threads :
          CacheAccess(w) => \A u \in Threads \ {w} : ~InSection(u)]_vars

\* C15 (analyze_file never raises): whatever the other thread does in
\* between, clear_cache included, a call of analyze_file that has come to
\* its end has returned a FileAnalysis and has raised nothing.
C15_NeverRaises ==
    \A w \in Threads :
       (threads[w].op = "analyze" /\ threads[w].pc = "done") =>
           /\ threads[w].raised = ""
           /\ threads[w].ret # NoAnalysis

\* the caller of enhanced_chat has given up waiting for the analysis
TimedOut ==
    /\ threads[Caller].op = "chat"
    /\ threads[Caller].raised = "TimeoutError"

\* the worker whose caller has given up comes to the end of its call in
\* this step
LateCompletion ==
    /\ threads[PoolWorker].late
    /\ threads[PoolWorker].pc # "done"
    /\ threads'[PoolWorker].pc = "done"
    /\ threads'[PoolWorker].late

\* the caller gives up in this step
GivesUp == threads[Caller].pc = "wait" /\ TimedOut'

\* the analysis is what a non-forced analyze_file of the key returns from
\* the cache c at time t
ServedFrom(c, k, a, t) ==
    /\ Served(c, k, FALSE, t)
    /\ analyze_file(c, files, PathOf(k), FALSE, t).ret = a

\* C16 as stated (timeout discard): a caller that has given up has no
\* analysis for the call; the worker is not cancelled, and when it later
\* comes to the end of analyze_file it has stored what it returns in the
\* cache, where a non-forced analyze_file returns it.
C16_TimeoutDiscard_AsStated ==
    [][ /\ TimedOut' => threads'[Caller].ret = NoAnalysis
        /\ GivesUp =>
              threads'[PoolWorker] =
                 [threads[PoolWorker] EXCEPT !.late = TRUE]
        /\ (LateCompletion /\ threads'[PoolWorker].raised = "") =>
              /\ CacheHas(cache', threads[PoolWorker].key)
              /\ CacheGet(cache', threads[PoolWorker].key).analysis =
                   threads'[PoolWorker].ret
              /\ ServedFrom(cache', threads[PoolWorker].key,
                            threads'[PoolWorker].ret, now')
      ]_vars

\* C16 as amended: a caller that has given up has no analysis for the call
\* and never gets the late one; the worker is not cancelled; when its
\* extraction later succeeds it stores the result under the path with the
\* time of the store, where a non-forced analyze_file within the TTL of
\* that time returns it; when its extraction fails it returns the minimal
\* analysis and leaves the cache as it was.
C16_TimeoutDiscard ==
    [][ /\ TimedOut' => threads'[Caller].ret = NoAnalysis
        /\ GivesUp =>
              threads'[PoolWorker] =
                 [threads[PoolWorker] EXCEPT !.late = TRUE]
        /\ (LateCompletion /\ threads[PoolWorker].pc = "store") =>
              /\ threads'[PoolWorker].ret = threads[PoolWorker].found
              /\ Held(cache', threads[PoolWorker].key) =
                   [analysis |-> threads'[PoolWorker].ret, time |-> now']
              /\ \A t \in {now', now' + TickLen, now' + CacheTTL} :
                   t - now' < CacheTTL =>
                      ServedFrom(cache', threads[PoolWorker].key,
                                 threads'[PoolWorker].ret, t)
        /\ (LateCompletion /\ threads[PoolWorker].pc = "extract") =>
              /\ threads'[PoolWorker].ret.hash = EmptyHash
              /\ cache' = cache
      ]_vars

\* the caller gave up, and later the worker stored its analysis, which a
\* non-forced analyze_file now returns
C16_Witness ==
    /\ TimedOut
    /\ threads[Caller].ret = NoAnalysis
    /\ threads[PoolWorker].late
    /\ threads[PoolWorker].pc = "done"
    /\ threads[PoolWorker].at >= threads[Caller].since + ChatTimeout
    /\ threads[PoolWorker].ret.hash # EmptyHash
    /\ Held(cache, threads[PoolWorker].key) =
         [analysis |-> threads[PoolWorker].ret,
          time |-> threads[PoolWorker].at]
    /\ ServedFrom(cache, threads[PoolWorker].key, threads[PoolWorker].ret,
                  now)

\* the last call of the thread w was an analyze_file that has come to its
\* end and has stored its analysis
HasStored(w) ==
    /\ threads[w].op = "analyze"
    /\ threads[w].pc = "done"
    /\ threads[w].at >= 0

\* what the thread w stored
StoreOf(w) == [analysis |-> threads[w].ret, time |-> threads[w].at]

\* C17 (concurrent recomputes of one path): when two threads have each
\* recomputed the same path and stored, the cache holds exactly one entry
\* for the path, and it is whole what one of the two stored (analysis and
\* time of the same store), that of the later store when the two times
\* differ; it may be the analysis of the older content.
C17_LastWriteWins ==
    \A w, u \in Threads :
       (w # u /\ HasStored(w) /\ HasStored(u)
          /\ threads[w].key = threads[u].key) =>
           /\ Cardinality({e \in cache : e.key = threads[w].key}) = 1
           /\ Held(cache, threads[w].key) \in {StoreOf(w), StoreOf(u)}
           /\ threads[w].at > threads[u].at =>
                 Held(cache, threads[w].key) = StoreOf(w)

\* two recomputes of a.py met; what the cache holds is the analysis of a
\* content the file no longer has, whole as its thread stored it, while the
\* other thread's analysis is of the present content
C17_Witness ==
    \E w, u \in Threads :
       /\ w # u /\ HasStored(w) /\ HasStored(u)
       /\ threads[w].key = threads[u].key
       /\ threads[u].overlap
       /\ threads[w].ret # threads[u].ret
       /\ files[threads[w].key].exists
       /\ threads[u].ret.hash = Md5(files[threads[w].key].text)
       /\ Held(cache, threads[w].key) = StoreOf(w)

----------------------------------------------------------------------------
(* Independence of the paths, checked under Spec *)

\* the cache after analyze_file(p, fp) and then analyze_file(q, fq), both at
\* the present time
AfterBoth(p, fp, q, fq) ==
    analyze_file(analyze_file(cache, files, p, fp, now).cache, files, q, fq,
                 now).cache

\* C18 (independence across paths): analyze_file(p) never adds, replaces or
\* removes the cache entry of a path other than p; and two analyses of
\* different paths leave the same cache whichever of the two comes to its
\* end first.
C18_Independence ==
    /\ Analyzed => {e \in cache : e.key # last.key} = last.rest
    /\ \A p, q \in BasePaths, fp, fq \in BOOLEAN :
          p # q => AfterBoth(p, fp, q, fq) = AfterBoth(q, fq, p, fp)

\* the last call stored an analysis for its path, of another content than
\* the entry it replaced, while the cache held an entry for the other path,
\* which is as it was
C18_Witness ==
    /\ Analyzed /\ last.extracted = 1
    /\ last.prev # NoStore
    /\ Held(cache, last.key) = [analysis |-> last.ret, time |-> last.at]
    /\ last.ret # last.prev.analysis
    /\ \E k \in Keys \ {last.key} :
         /\ CacheHas(cache, k)
         /\ Held(cache, k) = stored[k]
         /\ stored[k].time < last.at

----------------------------------------------------------------------------
(* Degradation *)

\* the issues of severity error of an analysis, as places in the list
ErrorIssues(a) == {i \in DOMAIN a.issues : a.issues[i].severity = "error"}

\* C19 (graceful degradation), checked under SpecDC on the analysis
\* detect_conflicts makes of the new content: the analysis of Python
\* content that has a syntax error has no element and exactly one issue of
\* severity error.
C19_GracefulDegradation ==
    (Detected /\ AfterAnalysed /\ last.io \in {"ok", "unlink_fails"}
       /\ PathOf(last.key).suffix = ".py"
       /\ last.new_content.syn = "bad") =>
        /\ last.after.elements = <<>>
        /\ Cardinality(ErrorIssues(last.after)) = 1

\* C20 (issue detectors never fail the analysis), checked under
\* SpecFaulty: when the language-specific issue detector raises in an
\* analyze_file that reads its file and extracts with success, the call
\* returns the full analysis (language, elements and hash of the content),
\* with the issues of the detectors of every language only, and caches it.
C20_DetectorsNeverFail ==
    (Analyzed /\ last.io = "detector_raises" /\ last.extracted = 1
       /\ TheFile.exists /\ TheFile.utf8
       /\ ~analyzer(PathOf(last.key).suffix, TheFile.text).raised) =>
        /\ last.ret.language = detect_language(PathOf(last.key).suffix)
        /\ last.ret.elements =
             analyzer(PathOf(last.key).suffix, TheFile.text).value
        /\ last.ret.hash = Md5(TheFile.text)
        /\ last.ret.issues = detect_issues(TheFile.text, "unknown")
        /\ Held(cache, last.key) = [analysis |-> last.ret, time |-> last.at]

----------------------------------------------------------------------------
(* Determinism and the elements *)

\* two analyses agree on what the content alone decides: the hash, the
\* elements in their order and the file's complexity score
SameResult(a, b) ==
    /\ a.hash = b.hash
    /\ a.elements = b.elements
    /\ a.complexity_score = b.complexity_score

\* the last call was a forced analyze_file
Forced == Analyzed /\ last.force

C22_ElementInvariants ==
    Analyzed =>
        \A i \in DOMAIN last.ret.elements :
           /\ last.ret.elements[i].line_start >= 1
           /\ last.ret.elements[i].line_end >= last.ret.elements[i].line_start
           /\ last.ret.elements[i].complexity >= 1

\* the kinds of node the complexity of a function counts: the conditional
\* (if), the loops (for, while) and the handling of exceptions (try and its
\* handlers)
Branching == {"If", "For", "While", "Try", "ExceptHandler"}

\* the nodes of the kinds counted in a sequence of trees, counted tree by
\* tree and depth first
RECURSIVE CountBranching(_)
CountBranching(nodes) ==
    IF nodes = <<>> THEN 0
    ELSE (IF nodes[1].kind \in Branching THEN 1 ELSE 0)
           + CountBranching(nodes[1].children) + CountBranching(Tail(nodes))

\* the last call returned the analysis of the present content of its Python
\* file, which parses
AnalyzedTree ==
    /\ Analyzed /\ OfPresentContent
    /\ PathOf(last.key).suffix = ".py"
    /\ TheFile.text.syn = "ok"

\* the function of the i-th definition of the text, with the construct of
\* kind k put around its body
Around(d, k) == Node("FunctionDef", <<Node(k, d.body)>>)

\* C23 (element-level complexity), checked under SpecTrees: the complexity
\* of a function element of the Python path is 1 plus the number of if,
\* for, while, try and handler nodes below the function, at any depth; a
\* function with none of them scores 1; putting one more of these
\* constructs around its body never lowers the score, and an 'if' put
\* around the body of a function that scores 1 gives 2.
C23_FunctionComplexity ==
    AnalyzedTree =>
        \A i \in DOMAIN last.ret.elements :
           LET e == last.ret.elements[i]
               d == TheFile.text.decls[i]
           IN  e.type = "function" =>
                 /\ e.complexity = 1 + CountBranching(d.body)
                 /\ CountBranching(d.body) = 0 => e.complexity = 1
                 /\ \A k \in Branching :
                       calculate_function_complexity(Around(d, k))
                         >= e.complexity
                 /\ e.complexity = 1 =>
                       calculate_function_complexity(Around(d, "If")) = 2

\* the analysis of a function that holds a try with its handler inside
\* another construct has been returned: its complexity is above 3
C23_Witness ==
    /\ AnalyzedTree
    /\ \E i \in DOMAIN last.ret.elements :
          /\ last.ret.elements[i].type = "function"
          /\ last.ret.elements[i].complexity >= 4
          /\ \E j \in DOMAIN TheFile.text.decls[i].body :
                TheFile.text.decls[i].body[j].kind # "Try"

----------------------------------------------------------------------------
(* Eviction and failed recomputes *)

\* the keys the cache c holds
CachedKeys(c) == {e.key : e \in c}

\* the entries of the cache c that have reached the TTL at time t
Expired(c, t) == {e \in c : t - e.time >= CacheTTL}

\* C24 (no eviction), checked under Spec: no step other than clear_cache
\* takes a key out of the cache; an entry leaves the cache only by
\* clear_cache or by a recompute of its own path that stores in its place,
\* whatever its age; and get_cache_stats counts every entry, the expired
\* ones too.
C24_NoEviction ==
    [][ /\ last'.op # "clear" => CachedKeys(cache) \subseteq CachedKeys(cache')
        /\ \A e \in cache :
              e \notin cache' =>
                 \/ last'.op = "clear"
                 \/ /\ last'.op = "analyze" /\ last'.key = e.key
                    /\ last'.extracted = 1
                    /\ Held(cache', e.key)
                         = [analysis |-> last'.ret, time |-> last'.at]
        /\ last'.op = "stats" =>
              last'.stats.cached_files = Cardinality(cache) ]_vars

\* get_cache_stats has counted two entries, one of which had reached the TTL
C24_Witness ==
    /\ last.op = "stats"
    /\ last.stats.cached_files = 2
    /\ Expired(cache, now) # {}
    /\ Expired(cache, now) # cache

\* the last call was an analyze_file whose recompute failed: it ran the try
\* block on a file that cannot be read or on a text the extractor raises on
FailedRecompute ==
    /\ Analyzed /\ last.extracted = 1
    /\ Extract(files, PathOf(last.key)).raised

\* C25 (state unchanged on failed recompute), checked under Spec: an
\* analyze_file whose recompute fails returns the minimal analysis
\* (language 'unknown', no element, empty hash) and leaves the cache as it
\* was, the entry of its own path neither removed nor refreshed, forced or
\* not; a non-forced call that follows within the TTL of that entry is
\* served the older analysis.
C25_FailedRecompute ==
    /\ [](FailedRecompute =>
            /\ last.ret.language = "unknown"
            /\ last.ret.elements = <<>>
            /\ last.ret.hash = EmptyHash
            /\ Held(cache, last.key) = last.prev
            /\ {e \in cache : e.key # last.key} = last.rest)
    /\ [][( /\ FailedRecompute /\ last.prev # NoStore
            /\ last'.op = "analyze" /\ last'.key = last.key /\ ~last'.force
            /\ last'.at - last.prev.time < CacheTTL)
          => /\ last'.ret = last.prev.analysis
             /\ last'.extracted = 0]_vars

\* a forced recompute has failed on a path whose entry was fresh, and the
\* entry is still held
C25_Witness ==
    /\ FailedRecompute /\ last.force /\ HadFresh
    /\ last.prev.time < last.at
    /\ CacheHas(cache, last.key)
    /\ CacheGet(cache, last.key).analysis.hash # EmptyHash

----------------------------------------------------------------------------
(* The conflict detector and the cache *)

\* the key of the temporary file of the last call
TempKey == Str(TempPath(PathOf(last.key)))

\* the keys of the files that were analysed as themselves
OwnKeys == {Str(p) : p \in BasePaths}

\* C26 (cache frame of detect_conflicts), checked under SpecDC: after
\* detect_conflicts the cache holds no entry under the key of the temporary
\* file, and get_cache_stats counts only the files analysed as themselves.
C26_CacheFrame ==
    Detected =>
        /\ ~CacheHas(cache, TempKey)
        /\ get_cache_stats(cache).cached_files
             = Cardinality({e \in cache : e.key \in OwnKeys})

\* the thread w has returned from detect_conflicts
Returned(w) == threads[w].op = "detect" /\ threads[w].pc = "done"

\* the conflicts the call of the thread w returns when it runs alone, the
\* file being what it is
Alone(w) ==
    detect_conflicts({}, [files EXCEPT ![Str(TempPath(PathIn(w)))] = NoFile],
                     PathIn(w), threads[w].new_content, "ok", now).conflicts

\* C27 (isolation of concurrent conflict checks), checked under SpecRace:
\* a detect_conflicts call that ran while another worked on the same file
\* returns the conflicts it returns when run alone.
C27_Isolation ==
    \A w \in Threads : Returned(w) => threads[w].conflicts = Alone(w)

----------------------------------------------------------------------------
(* The agent: the checks before an edit and the state after one *)

\* the last call was analyze_before_edit, and it obtained an analysis
CheckedBeforeEdit == last.op = "before_edit" /\ last.success

\* C28 (a failed analysis is not valid syntax), checked under SpecBE: when
\* the analysis analyze_before_edit obtained is the minimal analysis of a
\* failure, it reports syntax_valid = false and safe_to_edit = false.
C28_FailedAnalysisUnsafe ==
    (CheckedBeforeEdit /\ Degraded) =>
        /\ ~last.checks.syntax_valid
        /\ ~last.safe_to_edit

\* the last call was a smart_modify_file that returned success = True
Edited == last.op = "modify" /\ last.success

\* C29 (cache freshness after an edit), checked under SpecEdit: when
\* smart_modify_file returns success = True the cache holds, for the file,
\* the analysis of the content just written; and the non-forced analyze_file
\* of the file that follows returns the analysis of that content.
C29_FreshAfterEdit ==
    /\ [](Edited =>
            /\ CacheHas(cache, last.key)
            /\ CacheGet(cache, last.key).analysis.hash
                 = Md5(last.new_content))
    /\ [][(Edited /\ last'.op = "analyze" /\ last'.key = last.key)
          => last'.ret.hash = Md5(last.new_content)]_vars

\* the backup directory holds a copy of the file of the last call as it was
\* before the call, made by the call
BackedUp ==
    \E b \in backups :
       /\ b.stem = PathOf(last.key).stem
       /\ b.suffix = PathOf(last.key).suffix
       /\ b.text = last.file_before.text
       /\ b.at = last.at

\* the last call stopped at its backup
BackupFailed ==
    /\ Modifying /\ last.backup
    /\ Len(last.steps) > 0
    /\ last.steps[Len(last.steps)] = "backup"

\* C30 (backup before write), checked under SpecSM: smart_modify_file with
\* backup = True makes the backup of the file's content before it writes
\* the file; when the backup cannot be made the file is not written and the
\* call returns success False; and whenever the file was modified with
\* backup = True, a backup of the content it had before exists.
C30_BackupBeforeWrite ==
    (Modifying /\ last.backup) =>
        /\ StepAt("write") > 0 =>
              /\ StepAt("backup") > 0
              /\ StepAt("backup") < StepAt("write")
        /\ BackupFailed =>
              /\ files[last.key] = last.file_before
              /\ StepAt("write") = 0
              /\ ~last.success
        /\ files[last.key] # last.file_before => BackedUp
        /\ last.success => BackedUp

\* a modification with backup = True went through: the file holds the new
\* content and the backup directory the old
C30_Witness ==
    /\ Modifying /\ last.backup /\ last.success
    /\ files[last.key] = File(last.new_content)
    /\ files[last.key] # last.file_before
    /\ BackedUp

\* a modification stopped at a backup that could not be made: the file is
\* as it was
C30_Stopped ==
    /\ BackupFailed /\ ~last.success
    /\ ~BackedUp
    /\ files[last.key] = last.file_before

====
